---- MODULE Spec2Model ----
(***************************************************************************)
(* Model of the Maliev geometry service: the upload consumer               *)
(* (src/consumers/upload_consumer.py), the geometry processor              *)
(* (src/core/geometry.py) and the service lifespan (src/main.py).          *)
(*                                                                         *)
(* The broker holds a fixed set of inbound messages.  The consumer takes   *)
(* them one delivery at a time (prefetch), process_message runs as a       *)
(* coroutine whose await points are the steps of the model, and the        *)
(* message.process() context acknowledges or rejects the delivery when     *)
(* the coroutine leaves it.                                                *)
(***************************************************************************)
EXTENDS Integers, Sequences, FiniteSets, TLC

(***************************************************************************)
(* Bounds of the model.                                                    *)
(***************************************************************************)
NumMsgs == 2
MaxCrashes == 1

(***************************************************************************)
(* Program constants.                                                      *)
(***************************************************************************)
MAX_FILE_SIZE_MB == 200
BytesPerMB == 1024 * 1024
PrefetchCount == 1
Attempts == 3

Msgs == 1..NumMsgs

None == "<None>"

SuccessKey == "maliev.geometryservice.v1.analysis.completed"
\* as FailureKey, publishing failures under the key of the success events
FailureKeyCompleted == "maliev.geometryservice.v1.analysis.completed"

FailureKey == "maliev.geometryservice.v1.analysis.failed"

(***************************************************************************)
(* Exceptions: a type and the text of str(e), kept as the sequence of the  *)
(* tokens the code searches for or produces.                               *)
(***************************************************************************)
NoExc == [type |-> "none", text |-> <<>>]

MkExc(t, txt) == [type |-> t, text |-> txt]

\* ValueError and its subclasses: json.JSONDecodeError, UnicodeDecodeError
\* and pydantic's ValidationError all derive from ValueError.
ValueErrorTypes == {"ValueError", "JSONDecodeError", "ValidationError"}

IsValueError(e) == e.type \in ValueErrorTypes

\* `code in str(e)`
Contains(text, code) == \E k \in 1..Len(text) : text[k] = code

(***************************************************************************)
(* Inbound message bodies.                                                 *)
(***************************************************************************)
MkBody(kind, corr, fid, uid, url, path, fname, ctype) ==
    [kind |-> kind, correlationId |-> corr, fileId |-> fid, uploadId |-> uid,
     downloadUrl |-> url, storagePath |-> path, fileName |-> fname,
     contentType |-> ctype]

NotJsonBody == MkBody("notjson", None, None, None, None, None, None, None)
MissingFieldsBody == MkBody("missing", None, None, None, None, None, None, None)

Bodies ==
    { NotJsonBody,
      MissingFieldsBody,
      MkBody("valid", "CORR-1", "file-1", "upload-1", "http://signed-url",
             "test/test.stl", "part.step", "model/step"),
      MkBody("valid", None, None, "upload-2", "http://signed-url",
             "test/part.STEP", "part.stl", "model/stl"),
      MkBody("valid", "corr-3", "", "upload-3", None,
             "test/test.stl", "test.stl", "model/stl"),
      MkBody("valid", "corr-4", "file-4", "upload-4", "",
             "test/test.stl", "test.stl", "model/stl") }

\* correlation_id: UUID | None.  model_validate parses the text of the
\* inbound correlationId whatever the case of its hex digits, and
\* model_dump_json writes str(uuid), the lower-case form; a UUID is
\* represented by that form.
ParseUuid(text) ==
    CASE text = "CORR-1" -> "corr-1"
      [] OTHER -> text

\* Python truthiness of an optional string
Truthy(s) == s \notin {None, ""}

\* Path(storage_path).suffix.lower()
FileExt(path) ==
    CASE path \in {"test/test.stl", "test.stl", "part.stl"} -> ".stl"
      [] path \in {"test/part.STEP", "part.step"} -> ".step"
      [] OTHER -> ""

\* as DispatchPath, with the name the file was uploaded under
DispatchPathFileName(b) == b.fileName

\* the field of the request whose suffix becomes file_ext
DispatchPath(b) == b.storagePath

(***************************************************************************)
(* Fetched content: the size of the buffer in bytes and what the bytes     *)
(* parse to.                                                               *)
(***************************************************************************)
NoFile == [size |-> 0, geom |-> "none"]

MaxBytes == MAX_FILE_SIZE_MB * BytesPerMB

Files ==
    { [size |-> 7, geom |-> "solid"],
      [size |-> 7, geom |-> "broken"],
      [size |-> 7, geom |-> "multibody"],
      [size |-> 7, geom |-> "garbage"],
      [size |-> 7, geom |-> "empty"],
      [size |-> 7, geom |-> "flat"],
      [size |-> 7, geom |-> "quotesSize"],
      [size |-> 7, geom |-> "quotesBoth"],
      [size |-> MaxBytes, geom |-> "solid"],
      [size |-> MaxBytes + 1, geom |-> "solid"] }

\* what an IStorageService may raise: the consumer catches every Exception
\* of download_file, and a ValueError is one of them
DownloadErrors ==
    { MkExc("HTTPStatusError", <<"Download failed">>),
      MkExc("ValueError", <<"invalid url">>) }

ClientClosedError == MkExc("RuntimeError", <<"client has been closed">>)

PublishError == MkExc("AMQPError", <<"publish failed">>)

\* raised in a task at the await it is suspended in when the task is cancelled
CancelledError == MkExc("CancelledError", <<>>)

NameError == MkExc("UnboundLocalError", <<"event">>)

(***************************************************************************)
(* GeometryProcessor.analyze_stream.                                       *)
(***************************************************************************)
CadExts == {"igs", "iges", "step", "stp"}

\* file_extension.strip(".").lower()
StripExt(ext) ==
    CASE ext = ".stl" -> "stl"
      [] ext = ".step" -> "step"
      [] OTHER -> ext

\* The triangle mesh the bytes hold, in millimetres: whether it is
\* watertight, its signed volume (unreliable when the mesh is open), the sum
\* of its triangle areas, its convex hull if one can be built, and its face
\* count.  "flat" is an open mesh of coplanar triangles, which has no hull.
NoMesh ==
    [watertight |-> FALSE, volume |-> 0, area |-> 0, hullOk |-> FALSE,
     hullVolume |-> 0, hullArea |-> 0, faces |-> 0]

MeshOf(geom) ==
    CASE geom = "solid" ->
            [watertight |-> TRUE, volume |-> 1000, area |-> 600,
             hullOk |-> TRUE, hullVolume |-> 1000, hullArea |-> 600,
             faces |-> 12]
      [] geom = "broken" ->
            [watertight |-> FALSE, volume |-> -833, area |-> 550,
             hullOk |-> TRUE, hullVolume |-> 1000, hullArea |-> 600,
             faces |-> 11]
      [] geom = "flat" ->
            [watertight |-> FALSE, volume |-> -50, area |-> 100,
             hullOk |-> FALSE, hullVolume |-> 0, hullArea |-> 0,
             faces |-> 2]
      [] geom = "multibody" ->
            [watertight |-> TRUE, volume |-> 2000, area |-> 1200,
             hullOk |-> TRUE, hullVolume |-> 4000, hullArea |-> 1600,
             faces |-> 24]
      [] OTHER -> NoMesh

\* GeometryMetrics, with volume_cm3 and surface_area_cm2 kept in mm3 and mm2
\* (the divisions by 1000.0 and 100.0 keep the sign and the order)
NoMetrics ==
    [isManifold |-> FALSE, volumeMm3 |-> 0, areaMm2 |-> 0, triangleCount |-> 0]

\* as ComputeMetrics, without the convex-hull fallback
ComputeMetricsNoFallback(mesh) ==
    [isManifold |-> mesh.watertight, volumeMm3 |-> mesh.volume,
     areaMm2 |-> mesh.area, triangleCount |-> mesh.faces]

\* is_manifold = bool(mesh.is_watertight); volume and area of the mesh when
\* manifold, else of its convex hull, else 0.0 and the area of the mesh
ComputeMetrics(mesh) ==
    IF mesh.watertight
    THEN [isManifold |-> TRUE, volumeMm3 |-> mesh.volume,
          areaMm2 |-> mesh.area, triangleCount |-> mesh.faces]
    ELSE IF mesh.hullOk
    THEN [isManifold |-> FALSE, volumeMm3 |-> mesh.hullVolume,
          areaMm2 |-> mesh.hullArea, triangleCount |-> mesh.faces]
    ELSE [isManifold |-> FALSE, volumeMm3 |-> 0,
          areaMm2 |-> mesh.area, triangleCount |-> mesh.faces]

\* The outcome of a loading branch and of analyze_stream; tmp is the state
\* of the temporary file of the CAD branch when control leaves: "none" (never
\* created), "removed" or "left".
Loaded(mesh, tmp) == [ok |-> TRUE, exc |-> NoExc, mesh |-> mesh, tmp |-> tmp]
NotLoaded(e, tmp) == [ok |-> FALSE, exc |-> e, mesh |-> NoMesh, tmp |-> tmp]

Raised(e, tmp) == [ok |-> FALSE, exc |-> e, metrics |-> NoMetrics, tmp |-> tmp]
Returned(mt, tmp) == [ok |-> TRUE, exc |-> NoExc, metrics |-> mt, tmp |-> tmp]

\* The step of the CAD branch at which the environment (disk, engine) fails
\* during one call, if any.
CadFaults ==
    {"none", "write", "initialize", "open", "generate", "extract", "finalize"}

\* except Exception as e: raise ValueError(f"CAD_LOAD_ERROR: {ext} ({str(e)})")
CadLoadError(ext, cause) ==
    MkExc("ValueError", <<"CAD_LOAD_ERROR", ext, cause>>)

\* finally: gmsh.finalize(); p.unlink() -- the unlink is skipped when
\* finalize raises
TmpAfterFinally(finalizeRaises) == IF finalizeRaises THEN "left" ELSE "removed"

\* The CAD branch.  The temporary file is created with delete=False; a
\* failing tmp.write leaves the `with` before the inner try is entered, so
\* its finally clause does not run.  Inside the inner try gmsh tessellates
\* whatever the model holds (one body or several) and zero elements raise
\* GMSH_TESSELLATION_FAILED; every failure is wrapped as CAD_LOAD_ERROR.
Tessellate(file, ext, fault) ==
    IF fault = "write"
    THEN NotLoaded(CadLoadError(ext, "No space left on device"), "left")
    ELSE IF fault = "finalize"
    THEN NotLoaded(CadLoadError(ext, "gmsh error"), TmpAfterFinally(TRUE))
    ELSE IF fault \in {"initialize", "open", "generate", "extract"}
    THEN NotLoaded(CadLoadError(ext, "gmsh error"), TmpAfterFinally(FALSE))
    ELSE CASE file.geom \in {"solid", "broken", "flat", "multibody"} ->
                 Loaded(MeshOf(file.geom), TmpAfterFinally(FALSE))
           [] file.geom = "empty" ->
                 NotLoaded(CadLoadError(ext, "GMSH_TESSELLATION_FAILED"),
                           TmpAfterFinally(FALSE))
           [] OTHER ->
                 NotLoaded(CadLoadError(ext, "gmsh error"),
                           TmpAfterFinally(FALSE))

\* The mesh branch: trimesh.load and the scene checks.  The text of a
\* parser error can quote the token of the file it stopped at ("quotesSize"
\* and "quotesBoth" are text files with such tokens where a number is due).
LoadMesh(file, ext) ==
    CASE file.geom \in {"solid", "broken", "flat"} ->
            Loaded(MeshOf(file.geom), "none")
      [] file.geom = "multibody" ->
            NotLoaded(MkExc("ValueError", <<"MULTI_BODY_ERROR">>), "none")
      [] file.geom = "empty" ->
            NotLoaded(MkExc("ValueError", <<"EMPTY_FILE_ERROR">>), "none")
      [] file.geom = "quotesSize" ->
            NotLoaded(MkExc("ValueError",
                            <<"could not convert string to float",
                              "SIZE_LIMIT_EXCEEDED">>), "none")
      [] file.geom = "quotesBoth" ->
            NotLoaded(MkExc("ValueError",
                            <<"could not convert string to float",
                              "SIZE_LIMIT_EXCEEDED", "MULTI_BODY_ERROR">>),
                      "none")
      [] OTHER ->
            NotLoaded(MkExc("LoadError", <<"not a mesh">>), "none")

\* The outer handler of analyze_stream: an error whose text contains
\* MULTI_BODY_ERROR is re-raised, any other becomes ValueError FILE_CORRUPT.
WrapAnalyzeError(e) ==
    IF Contains(e.text, "MULTI_BODY_ERROR")
    THEN e
    ELSE MkExc("ValueError", <<"FILE_CORRUPT">> \o e.text)

\* the faults one call of analyze_stream can meet
FaultsFor(file_extension) ==
    IF StripExt(file_extension) \in CadExts THEN CadFaults ELSE {"none"}

\* which of the two loading branches analyze_stream takes
Branch(file_extension) ==
    IF StripExt(file_extension) \in CadExts THEN "tessellate" ELSE "mesh"

AnalyzeStream(file, file_extension, fault) ==
    LET ext == StripExt(file_extension)
        r == IF Branch(file_extension) = "tessellate"
             THEN Tessellate(file, ext, fault)
             ELSE LoadMesh(file, ext)
    IN  IF r.ok
        THEN Returned(ComputeMetrics(r.mesh), r.tmp)
        ELSE Raised(WrapAnalyzeError(r.exc), r.tmp)

(***************************************************************************)
(* The error classification of process_message.                            *)
(***************************************************************************)
\* as ClassifyValueError, testing for SIZE_LIMIT_EXCEEDED first
ClassifyValueErrorSizeFirst(e) ==
    IF Contains(e.text, "SIZE_LIMIT_EXCEEDED") THEN "SIZE_LIMIT_EXCEEDED"
    ELSE IF Contains(e.text, "MULTI_BODY_ERROR") THEN "MULTI_BODY_ERROR"
    ELSE "FILE_CORRUPT"

\* except ValueError: the code published for str(e)
ClassifyValueError(e) ==
    IF Contains(e.text, "MULTI_BODY_ERROR") THEN "MULTI_BODY_ERROR"
    ELSE IF Contains(e.text, "SIZE_LIMIT_EXCEEDED") THEN "SIZE_LIMIT_EXCEEDED"
    ELSE "FILE_CORRUPT"

\* the errorCode handed to publish_failure by the two except clauses
ErrorCodeFor(e) ==
    IF IsValueError(e) THEN ClassifyValueError(e) ELSE "SYSTEM_ERROR"

\* as FileIdOf, falling back to the uploadId only when the fileId is absent
FileIdOfPresent(b) == IF b.fileId # None THEN b.fileId ELSE b.uploadId

\* file_id = inner_msg.file_id or inner_msg.upload_id
FileIdOf(b) == IF Truthy(b.fileId) THEN b.fileId ELSE b.uploadId

\* as SizeLimitExceeded, rejecting a file of exactly the maximum size
SizeLimitReached(file) == file.size >= MAX_FILE_SIZE_MB * BytesPerMB

\* size_mb > settings.MAX_FILE_SIZE_MB, with size_mb = bytes / (1024 * 1024);
\* the division by a power of two is exact, so the test is on the bytes
SizeLimitExceeded(file) == file.size > MAX_FILE_SIZE_MB * BytesPerMB

\* as WaitTime, with the exponent starting at 0
WaitTimeFromOne(i) == 2 ^ i

\* wait_time = 2 ** (i + 1)
WaitTime(i) == 2 ^ (i + 1)

\* if i == attempts - 1: raise e
IsLastAttempt(i) == i = Attempts - 1

\* as ProcessContextExit, acknowledging whatever happened in the block
ProcessContextAlwaysAck(e) == "ack"

\* async with message.process(): ack on a normal exit, reject(requeue=False)
\* (the default of process()) when an exception leaves the block
ProcessContextExit(e) == IF e = NoExc THEN "ack" ELSE "reject"

\* as MayDeliver, without a prefetch limit
MayDeliverUnlimited(nUnacked) == TRUE

\* channel.set_qos(prefetch_count=1): the broker delivers while fewer than
\* prefetch_count deliveries are unacknowledged
MayDeliver(nUnacked) == nUnacked < PrefetchCount

(***************************************************************************)
(* State.                                                                  *)
(***************************************************************************)
VARIABLES
    bodies,        \* the body of each inbound message
    content,       \* what the storage serves at the message's downloadUrl
    status,        \* broker side: "absent", "ready", "unacked", "acked",
                   \* "rejected"
    deliveryNo,    \* how many times the broker has delivered each message
    ackedDelivery, \* the delivery that was acknowledged, 0 if none
    proc,          \* process_message: the coroutine of each delivery
    outbox,        \* events accepted by the outbound exchange, in order
    consumerTask,  \* the task of consumer.start(): running, done, cancelled
    shutDown,      \* the lifespan has run its shutdown branch, which also
                   \* closes the storage client
    crashes,       \* number of process terminations so far
    exchangeFaults \* the ways a publish can fail in this run

vars == <<bodies, content, status, deliveryNo, ackedDelivery, proc, outbox,
          consumerTask, shutDown, crashes, exchangeFaults>>

\* the outcome of one call of storage_service.download_file
DownloadOk(f) == [ok |-> TRUE, file |-> f, exc |-> NoExc]
DownloadFail(e) == [ok |-> FALSE, file |-> NoFile, exc |-> e]
NoOutcome == DownloadFail(NoExc)

\* what HttpDownloadService.download_file can do: return the content served
\* at the url, or raise; once the client is closed every call raises
DownloadOutcomes(closed, f) ==
    IF closed
    THEN {DownloadFail(ClientClosedError)}
    ELSE {DownloadOk(f)} \cup {DownloadFail(e) : e \in DownloadErrors}

IdleProc ==
    [pc |-> "idle", eventBound |-> FALSE, correlationId |-> None,
     fileId |-> None, i |-> 0, calls |-> 0, last |-> NoOutcome,
     waits |-> <<>>, fetched |-> "none", stream |-> NoFile,
     streamOpen |-> FALSE, sizeChecked |-> FALSE, analyzed |-> FALSE,
     metrics |-> NoMetrics, exc |-> NoExc, publishRaised |-> FALSE,
     failedStep |-> "none", atShutdown |-> FALSE, fault |-> "none",
     tmp |-> "none", branch |-> "none", worker |-> "none"]

\* the coroutine has returned and its locals are gone
DoneProc == [IdleProc EXCEPT !.pc = "done"]

InFlightPcs == {"parse", "download", "sleep", "sizecheck", "analyze",
                "publish", "handle", "exit"}

InFlight(m) == proc[m].pc \in InFlightPcs

\* suspended in the fetch, in a backoff sleep, or in the off-loaded analysis
AwaitingWork == {"download", "sleep", "analyze"}

Unacked == {m \in Msgs : status[m] = "unacked"}

(***************************************************************************)
(* The wire names of an outbound event.  A Python field name is the        *)
(* sequence of its "_"-separated components, a wire name the sequence of   *)
(* the pieces it is written with.                                          *)
(***************************************************************************)
MassTransitEnvelopeFields ==
    { <<"message", "id">>, <<"correlation", "id">>, <<"conversation", "id">>,
      <<"source", "address">>, <<"destination", "address">>,
      <<"message", "type">>, <<"headers">>, <<"message">> }

FileAnalyzedMessageFields ==
    { <<"file", "id">>, <<"metrics">>, <<"processed", "at">> }

FileAnalysisFailedMessageFields ==
    { <<"file", "id">>, <<"error", "code">>, <<"details">> }

GeometryMetricsFields ==
    { <<"volume", "cm3">>, <<"support", "volume", "cm3">>,
      <<"surface", "area", "cm2">>, <<"bounding", "box">>,
      <<"is", "manifold">>, <<"triangle", "count">>, <<"euler", "number">> }

BoundingBoxFields == { <<"x">>, <<"y">>, <<"z">> }

\* x.title()
Title(x) ==
    CASE x = "id" -> "Id"
      [] x = "address" -> "Address"
      [] x = "type" -> "Type"
      [] x = "code" -> "Code"
      [] x = "at" -> "At"
      [] x = "cm3" -> "Cm3"
      [] x = "cm2" -> "Cm2"
      [] x = "volume" -> "Volume"
      [] x = "area" -> "Area"
      [] x = "box" -> "Box"
      [] x = "manifold" -> "Manifold"
      [] x = "count" -> "Count"
      [] x = "number" -> "Number"
      [] OTHER -> x

\* components[0] + "".join(x.title() for x in components[1:])
to_camel(components) ==
    <<components[1]>> \o
    [i \in 1..(Len(components) - 1) |-> Title(components[i + 1])]

\* the name of a field of a model without alias generator: by_alias=True
\* finds no alias and writes the Python name, underscores included
PlainName(components) ==
    [i \in 1..(2 * Len(components) - 1) |->
        IF i % 2 = 1 THEN components[(i + 1) \div 2] ELSE "_"]

\* model_dump_json(by_alias=True): the envelope and the two payloads have
\* alias_generator=to_camel (their explicit aliases are the same names);
\* GeometryMetrics and BoundingBox have no model_config
SerializedNames(kind) ==
    {to_camel(f) : f \in MassTransitEnvelopeFields} \cup
    IF kind = "success"
    THEN {to_camel(f) : f \in FileAnalyzedMessageFields} \cup
         {PlainName(f) : f \in GeometryMetricsFields} \cup
         {PlainName(f) : f \in BoundingBoxFields}
    ELSE {to_camel(f) : f \in FileAnalysisFailedMessageFields}

\* as EnvelopeCorrelationId, leaving the envelope's default (None)
EnvelopeCorrelationIdDefault(p) == None

\* correlationId=event.correlation_id, in the success event and in the call
\* of publish_failure
EnvelopeCorrelationId(p) == p.correlationId

\* An outbound event (the free-text details of a failure are left out).
\* confirmed tells whether the publish call that sent it returned.
MkEvent(m, kind, key, corr, fid, code, mt, confirmed) ==
    [msg |-> m, delivery |-> deliveryNo[m], kind |-> kind, routingKey |-> key,
     correlationId |-> corr, fileId |-> fid, errorCode |-> code,
     metrics |-> mt, fieldNames |-> SerializedNames(kind),
     confirmed |-> confirmed]

\* What `await self.exchange.publish(...)` can do: the exchange takes the
\* event and the call returns; the call raises and the exchange has not
\* taken the event; or the exchange takes the event and the call raises all
\* the same (the connection is lost before the confirmation arrives).
PublishFaults == {"refused", "unconfirmed"}

PublishOutcomes(faults) == {"returned"} \cup faults

PublishTaken(o) == o \in {"returned", "unconfirmed"}
PublishReturns(o) == o = "returned"

\* Everything but the content of the queue.
InitConsumer ==
    /\ deliveryNo = [m \in Msgs |-> 0]
    /\ ackedDelivery = [m \in Msgs |-> 0]
    /\ proc = [m \in Msgs |-> IdleProc]
    /\ outbox = <<>>
    /\ consumerTask = "running"
    /\ shutDown = FALSE
    /\ crashes = 0

\* the contents a body's downloadUrl can point to
ContentsFor(b, files) == IF Truthy(b.downloadUrl) THEN files ELSE {NoFile}

\* One inbound message, of any body and content, is in the queue.
Init ==
    /\ \E b \in Bodies : \E f \in ContentsFor(b, Files) :
         /\ bodies = [m \in Msgs |-> IF m = 1 THEN b ELSE NotJsonBody]
         /\ content = [m \in Msgs |-> IF m = 1 THEN f ELSE NoFile]
    /\ status = [m \in Msgs |-> IF m = 1 THEN "ready" ELSE "absent"]
    /\ exchangeFaults = PublishFaults
    /\ InitConsumer

\* A queue of NumMsgs inbound messages, served by an exchange whose
\* publishes return.
QueueBodies == {b \in Bodies : b.kind = "notjson" \/ b.fileId = "file-1"}
QueueFiles == {f \in Files : f.size = 7 /\ f.geom = "solid"}

InitQueue ==
    /\ bodies \in [Msgs -> QueueBodies]
    /\ content \in [Msgs -> QueueFiles \cup {NoFile}]
    /\ \A m \in Msgs : content[m] \in ContentsFor(bodies[m], QueueFiles)
    /\ status = [m \in Msgs |-> "ready"]
    /\ exchangeFaults = {}
    /\ InitConsumer

(***************************************************************************)
(* UploadConsumer.start: connect, bind and register process_message.       *)
(***************************************************************************)
Start ==
    /\ consumerTask = "running"
    /\ consumerTask' = "done"
    /\ UNCHANGED <<bodies, content, status, deliveryNo, ackedDelivery, proc,
                   outbox, shutDown, crashes, exchangeFaults>>

\* The broker hands the first ready message of the queue to the registered
\* callback.
Deliver(m) ==
    /\ consumerTask = "done"
    /\ status[m] = "ready"
    /\ \A n \in Msgs : status[n] = "ready" => m <= n
    /\ MayDeliver(Cardinality(Unacked))
    /\ status' = [status EXCEPT ![m] = "unacked"]
    /\ deliveryNo' = [deliveryNo EXCEPT ![m] = @ + 1]
    /\ proc' = [proc EXCEPT ![m] = [IdleProc EXCEPT !.pc = "parse"]]
    /\ UNCHANGED <<bodies, content, ackedDelivery, outbox, consumerTask,
                   shutDown, crashes, exchangeFaults>>

(***************************************************************************)
(* process_message, up to the first await: json.loads, model_validate,     *)
(* file_id, and the download_url test.                                     *)
(***************************************************************************)
ParseError(b) ==
    IF b.kind = "notjson"
    THEN MkExc("JSONDecodeError", <<"Expecting value">>)
    ELSE MkExc("ValidationError", <<"Field required">>)

Parse(m) ==
    /\ proc[m].pc = "parse"
    /\ LET b == bodies[m] IN
       proc' = [proc EXCEPT ![m] =
          IF b.kind # "valid"
          THEN [@ EXCEPT !.pc = "handle", !.exc = ParseError(b),
                         !.failedStep = "parse"]
          ELSE IF ~Truthy(b.downloadUrl)
          THEN [@ EXCEPT !.eventBound = TRUE,
                         !.correlationId = ParseUuid(b.correlationId),
                         !.fileId = FileIdOf(b),
                         !.pc = "handle",
                         !.failedStep = "url",
                         !.exc = MkExc("ValueError", <<"MISSING_DOWNLOAD_URL">>)]
          ELSE [@ EXCEPT !.eventBound = TRUE,
                         !.correlationId = ParseUuid(b.correlationId),
                         !.fileId = FileIdOf(b),
                         !.pc = "download"]]
    /\ UNCHANGED <<bodies, content, status, deliveryNo, ackedDelivery, outbox,
                   consumerTask, shutDown, crashes, exchangeFaults>>

(***************************************************************************)
(* download_with_retry: one call of storage_service.download_file per      *)
(* step, and the backoff sleep between two calls.                          *)
(***************************************************************************)
DownloadAttempt(m) ==
    /\ proc[m].pc = "download"
    /\ \E o \in DownloadOutcomes(shutDown, content[m]) :
         proc' = [proc EXCEPT ![m] =
            IF o.ok
            THEN [@ EXCEPT !.calls = @ + 1, !.last = o,
                           !.fetched = "ok",
                           !.stream = o.file,
                           !.streamOpen = TRUE,
                           !.pc = "sizecheck"]
            ELSE IF IsLastAttempt(proc[m].i)
            THEN [@ EXCEPT !.calls = @ + 1, !.last = o,
                           !.fetched = "raised",
                           !.failedStep = "fetch",
                           !.exc = o.exc,
                           !.pc = "handle"]
            ELSE [@ EXCEPT !.calls = @ + 1, !.last = o,
                           !.waits = Append(@, WaitTime(proc[m].i)),
                           !.pc = "sleep"]]
    /\ UNCHANGED <<bodies, content, status, deliveryNo, ackedDelivery, outbox,
                   consumerTask, shutDown, crashes, exchangeFaults>>

\* await asyncio.sleep(wait_time) returns and the loop takes the next i
BackoffSleep(m) ==
    /\ proc[m].pc = "sleep"
    /\ proc' = [proc EXCEPT ![m].i = @ + 1, ![m].pc = "download"]
    /\ UNCHANGED <<bodies, content, status, deliveryNo, ackedDelivery, outbox,
                   consumerTask, shutDown, crashes, exchangeFaults>>

(***************************************************************************)
(* process_message after the fetch: size limit, analysis, success event.   *)
(* Leaving the inner try closes the stream (finally).                      *)
(***************************************************************************)
SizeCheck(m) ==
    /\ proc[m].pc = "sizecheck"
    /\ proc' = [proc EXCEPT ![m] =
          IF SizeLimitExceeded(proc[m].stream)
          THEN [@ EXCEPT !.sizeChecked = TRUE,
                         !.streamOpen = FALSE,
                         !.failedStep = "size",
                         !.exc = MkExc("ValueError", <<"SIZE_LIMIT_EXCEEDED">>),
                         !.pc = "handle"]
          ELSE [@ EXCEPT !.sizeChecked = TRUE, !.worker = "running",
                         !.pc = "analyze"]]
    /\ UNCHANGED <<bodies, content, status, deliveryNo, ackedDelivery, outbox,
                   consumerTask, shutDown, crashes, exchangeFaults>>

\* await geometry_processor.analyze_async(file_stream, file_ext): the call
\* hands analyze_stream to a thread of the default executor (worker =
\* "running") and the coroutine waits for its future; this step is the
\* worker reading the buffer, computing, and the coroutine resuming.
Analyze(m) ==
    /\ proc[m].pc = "analyze"
    /\ \E fault \in FaultsFor(FileExt(DispatchPath(bodies[m]))) :
       LET file_ext == FileExt(DispatchPath(bodies[m]))
           r == AnalyzeStream(proc[m].stream, file_ext, fault) IN
       proc' = [proc EXCEPT ![m] =
          IF r.ok
          THEN [@ EXCEPT !.analyzed = TRUE, !.fault = fault, !.tmp = r.tmp,
                         !.branch = Branch(file_ext),
                         !.worker = "done",
                         !.metrics = r.metrics, !.pc = "publish"]
          ELSE [@ EXCEPT !.analyzed = TRUE, !.fault = fault, !.tmp = r.tmp,
                         !.branch = Branch(file_ext),
                         !.worker = "done",
                         !.streamOpen = FALSE,
                         !.failedStep = "analysis",
                         !.exc = r.exc,
                         !.pc = "handle"]]
    /\ UNCHANGED <<bodies, content, status, deliveryNo, ackedDelivery, outbox,
                   consumerTask, shutDown, crashes, exchangeFaults>>

\* as AfterSuccessPublish, with the except clauses entered after a publish
\* that returned as well
AfterSuccessPublishAlwaysHandled(returned) == "handle"

\* where control goes after the success publish: out of the try when the
\* call returned, into the except clauses when it raised
AfterSuccessPublish(returned) == IF returned THEN "exit" ELSE "handle"

\* await publish_event(success_event, completed key)
PublishSuccess(m) ==
    /\ proc[m].pc = "publish"
    /\ \E o \in PublishOutcomes(exchangeFaults) :
         /\ outbox' =
               IF PublishTaken(o)
               THEN Append(outbox,
                      MkEvent(m, "success", SuccessKey,
                              EnvelopeCorrelationId(proc[m]),
                              proc[m].fileId, None, proc[m].metrics,
                              PublishReturns(o)))
               ELSE outbox
         /\ proc' = [proc EXCEPT ![m] =
               IF AfterSuccessPublish(PublishReturns(o)) = "exit"
               THEN [@ EXCEPT !.streamOpen = FALSE, !.pc = "exit"]
               ELSE [@ EXCEPT !.streamOpen = FALSE,
                              !.publishRaised = ~PublishReturns(o),
                              !.failedStep = "publish",
                              !.exc = PublishError,
                              !.pc = "handle"]]
    /\ UNCHANGED <<bodies, content, status, deliveryNo, ackedDelivery,
                   consumerTask, shutDown, crashes, exchangeFaults>>

(***************************************************************************)
(* The except clauses of process_message and publish_failure.  Both        *)
(* clauses read event and file_id, which are bound only once the body has  *)
(* been parsed and validated.                                              *)
(***************************************************************************)
HandlerNamesBound(p) == p.eventBound

\* as Caught, without the except Exception clause
CaughtOnlyValueError(e) == IsValueError(e)

\* except ValueError / except Exception: every exception the steps raise
\* derives from Exception
Caught(e) == IsValueError(e) \/ e.type # "none"

HandleError(m) ==
    /\ proc[m].pc = "handle"
    /\ IF ~Caught(proc[m].exc)
       THEN /\ proc' = [proc EXCEPT ![m].pc = "exit"]
            /\ outbox' = outbox
       ELSE IF ~HandlerNamesBound(proc[m])
       THEN /\ proc' = [proc EXCEPT ![m].exc = NameError, ![m].pc = "exit"]
            /\ outbox' = outbox
       ELSE \E o \in PublishOutcomes(exchangeFaults) :
              /\ outbox' =
                    IF PublishTaken(o)
                    THEN Append(outbox,
                           MkEvent(m, "failure", FailureKey,
                                   EnvelopeCorrelationId(proc[m]),
                                   proc[m].fileId, ErrorCodeFor(proc[m].exc),
                                   NoMetrics, PublishReturns(o)))
                    ELSE outbox
              /\ proc' =
                    IF PublishReturns(o)
                    THEN [proc EXCEPT ![m].exc = NoExc, ![m].pc = "exit"]
                    ELSE [proc EXCEPT ![m].publishRaised = TRUE,
                                      ![m].exc = PublishError,
                                      ![m].pc = "exit"]
    /\ UNCHANGED <<bodies, content, status, deliveryNo, ackedDelivery,
                   consumerTask, shutDown, crashes, exchangeFaults>>

(***************************************************************************)
(* Leaving `async with message.process()`.                                 *)
(***************************************************************************)
Ack(m) ==
    /\ proc[m].pc = "exit"
    /\ ProcessContextExit(proc[m].exc) = "ack"
    /\ status' = [status EXCEPT ![m] = "acked"]
    /\ ackedDelivery' = [ackedDelivery EXCEPT ![m] = deliveryNo[m]]
    /\ proc' = [proc EXCEPT ![m] = DoneProc]
    /\ UNCHANGED <<bodies, content, deliveryNo, outbox, consumerTask,
                   shutDown, crashes, exchangeFaults>>

Reject(m) ==
    /\ proc[m].pc = "exit"
    /\ ProcessContextExit(proc[m].exc) = "reject"
    /\ status' = [status EXCEPT ![m] = "rejected"]
    /\ proc' = [proc EXCEPT ![m] = [DoneProc EXCEPT !.worker = proc[m].worker]]
    /\ UNCHANGED <<bodies, content, deliveryNo, ackedDelivery, outbox,
                   consumerTask, shutDown, crashes, exchangeFaults>>

(***************************************************************************)
(* lifespan shutdown: cancel the task of consumer.start() and close the    *)
(* storage client.  The task is finished once start() has registered the   *)
(* callback, and cancelling a finished task does nothing.                  *)
(***************************************************************************)
CancelTask(t) == IF t = "running" THEN "cancelled" ELSE t

Shutdown ==
    /\ ~shutDown
    /\ shutDown' = TRUE
    /\ consumerTask' = CancelTask(consumerTask)
    /\ proc' = [m \in Msgs |->
                  IF proc[m].pc \in AwaitingWork
                  THEN [proc[m] EXCEPT !.atShutdown = TRUE]
                  ELSE proc[m]]
    /\ UNCHANGED <<bodies, content, status, deliveryNo, ackedDelivery, outbox,
                   crashes, exchangeFaults>>

(***************************************************************************)
(* The exit that follows shutdown: uvicorn.run drives the server with      *)
(* asyncio.run, which on return cancels every task still pending.  The     *)
(* task of a process_message suspended in an await gets CancelledError     *)
(* there; it is a BaseException, so neither except clause catches it, the  *)
(* finally clause closes the buffer if one was fetched, and                *)
(* message.process() rejects.  Cancelling the future of run_in_executor    *)
(* drops a work item that has not started and leaves a started one         *)
(* running in its thread.                                                  *)
(***************************************************************************)
WorkerAfterCancel(pc) ==
    IF pc = "analyze" THEN {"running", "dropped"} ELSE {"none"}

CancelPending(m) ==
    /\ shutDown
    /\ proc[m].pc \in AwaitingWork
    /\ \E w \in WorkerAfterCancel(proc[m].pc) :
         proc' = [proc EXCEPT ![m] =
                     [@ EXCEPT !.streamOpen = FALSE,
                               !.worker = w,
                               !.exc = CancelledError,
                               !.pc = "exit"]]
    /\ UNCHANGED <<bodies, content, status, deliveryNo, ackedDelivery, outbox,
                   consumerTask, shutDown, crashes, exchangeFaults>>

\* the worker thread that outlived its awaiting task runs analyze_stream on
\* the buffer it was given; nobody awaits its result
WorkerRead(m) ==
    /\ proc[m].worker = "running"
    /\ proc[m].pc # "analyze"
    /\ proc' = [proc EXCEPT ![m].worker =
                    IF proc[m].streamOpen THEN "done" ELSE "readClosed"]
    /\ UNCHANGED <<bodies, content, status, deliveryNo, ackedDelivery, outbox,
                   consumerTask, shutDown, crashes, exchangeFaults>>

(***************************************************************************)
(* The process terminates (a crash, or the exit that follows shutdown) and *)
(* a new one starts: the broker requeues every unacknowledged delivery.    *)
(***************************************************************************)
Crash ==
    /\ crashes < MaxCrashes
    /\ Unacked # {} \/ shutDown
    /\ crashes' = crashes + 1
    /\ status' = [m \in Msgs |-> IF status[m] = "unacked" THEN "ready" ELSE status[m]]
    /\ proc' = [m \in Msgs |-> IF status[m] = "unacked"
                               THEN IdleProc
                               ELSE [proc[m] EXCEPT !.worker = "none"]]
    /\ consumerTask' = "running"
    /\ shutDown' = FALSE
    /\ UNCHANGED <<bodies, content, deliveryNo, ackedDelivery, outbox,
                   exchangeFaults>>

Next ==
    \/ Start
    \/ \E m \in Msgs : Deliver(m)
    \/ \E m \in Msgs : Parse(m)
    \/ \E m \in Msgs : DownloadAttempt(m)
    \/ \E m \in Msgs : BackoffSleep(m)
    \/ \E m \in Msgs : SizeCheck(m)
    \/ \E m \in Msgs : Analyze(m)
    \/ \E m \in Msgs : PublishSuccess(m)
    \/ \E m \in Msgs : HandleError(m)
    \/ \E m \in Msgs : Ack(m)
    \/ \E m \in Msgs : Reject(m)
    \/ Shutdown
    \/ \E m \in Msgs : CancelPending(m)
    \/ \E m \in Msgs : WorkerRead(m)
    \/ Crash

Spec == Init /\ [][Next]_vars

SpecQueue == InitQueue /\ [][Next]_vars

(***************************************************************************)
(* Properties.                                                             *)
(***************************************************************************)
\* positions in the outbox of the events published for message m, and of
\* those published during its delivery d
EventsFor(m) == {k \in 1..Len(outbox) : outbox[k].msg = m}
EventsIn(m, d) == {k \in EventsFor(m) : outbox[k].delivery = d}
EventsNow(m) == EventsIn(m, deliveryNo[m])

\* process_message has left its try statement for this delivery
Ended(m) == proc[m].pc = "exit"

\* C1: whatever the body of the inbound message (a valid request, a JSON
\* object missing required fields, bytes that are not JSON), exactly one
\* outbound event has been published when processing of the delivery ends.
\* Stated for the deliveries in which no publish call raised, so that the
\* count depends on process_message alone.
C1_ExactlyOneEventPerDelivery ==
    \A m \in Msgs :
        (Ended(m) /\ ~proc[m].publishRaised) => Cardinality(EventsNow(m)) = 1

\* the steps of a validly parsed request that C2 is about
StepErrors == {"fetch", "size", "analysis"}

\* C2 as stated: when the fetch, the size check or the analysis of a validly
\* parsed request raises, exactly one failure event is published and no
\* exception leaves process_message.
C2_StepErrorAlwaysPublished ==
    \A m \in Msgs :
        (Ended(m) /\ proc[m].failedStep \in StepErrors) =>
            /\ Cardinality(EventsNow(m)) = 1
            /\ \A k \in EventsNow(m) : outbox[k].kind = "failure"
            /\ proc[m].exc = NoExc

\* C2 amended: when the fetch, the size check or the analysis of a validly
\* parsed request raises, publish_failure is attempted once; if that publish
\* returns, exactly one failure event is published and no exception leaves
\* process_message, and if it raises, the publish error leaves
\* process_message and at most one failure event, unconfirmed, has reached
\* the exchange.
C2_StepErrorPublishedUnlessPublishRaises ==
    \A m \in Msgs :
        (Ended(m) /\ proc[m].failedStep \in StepErrors) =>
            /\ \A k \in EventsNow(m) : outbox[k].kind = "failure"
            /\ IF proc[m].publishRaised
               THEN /\ Cardinality(EventsNow(m)) <= 1
                    /\ \A k \in EventsNow(m) : ~outbox[k].confirmed
                    /\ proc[m].exc = PublishError
               ELSE /\ Cardinality(EventsNow(m)) = 1
                    /\ \A k \in EventsNow(m) : outbox[k].confirmed
                    /\ proc[m].exc = NoExc

\* a fetch that failed three times has been reported by one failure event
C2_Witness ==
    \E m \in Msgs :
        /\ Ended(m)
        /\ proc[m].failedStep = "fetch"
        /\ ~proc[m].publishRaised
        /\ Cardinality(EventsNow(m)) = 1

\* C3: a delivery is acknowledged only after an event (success or failure)
\* has been published for that same delivery.
C3_AckOnlyAfterPublish ==
    \A m \in Msgs :
        ackedDelivery[m] # 0 => EventsIn(m, ackedDelivery[m]) # {}

\* a redelivered message has been acknowledged, with an event of that
\* second delivery in the outbox
C3_Witness ==
    \E m \in Msgs :
        /\ status[m] = "acked"
        /\ ackedDelivery[m] = 2
        /\ EventsIn(m, 2) # {}

\* C4: an inbound message is never permanently removed from the queue
\* (acknowledged, or rejected without requeue) unless an outcome event has
\* been published for it.
C4_NeverRemovedWithoutOutcome ==
    \A m \in Msgs :
        status[m] \in {"acked", "rejected"} => EventsFor(m) # {}

\* C5 as stated: over the whole history of a message, crashes and
\* redeliveries included, an acknowledged message has exactly one outbound
\* event.
C5_ExactlyOneEventPerAckedMessage ==
    \A m \in Msgs :
        status[m] = "acked" => Cardinality(EventsFor(m)) = 1

\* the events of delivery d of m whose publish call returned
ConfirmedIn(m, d) == {k \in EventsIn(m, d) : outbox[k].confirmed}

\* C5 amended: over the whole history of a message, crashes and
\* redeliveries included, an acknowledged message has at least one outbound
\* event, and exactly one publish call returned during the delivery that
\* was acknowledged: the last event of that delivery.
C5_OneEventInAckedDelivery ==
    \A m \in Msgs :
        status[m] = "acked" =>
            /\ EventsFor(m) # {}
            /\ Cardinality(ConfirmedIn(m, ackedDelivery[m])) = 1
            /\ \A k \in ConfirmedIn(m, ackedDelivery[m]) :
                  \A j \in EventsIn(m, ackedDelivery[m]) : j <= k

\* an acknowledged message with an event from a delivery that crashed
\* before its ack and the event of the acknowledged delivery
C5_Witness ==
    \E m \in Msgs :
        /\ status[m] = "acked"
        /\ ackedDelivery[m] = 2
        /\ EventsIn(m, 1) # {}
        /\ Cardinality(EventsIn(m, 2)) = 1

\* C6: a delivery that is awaiting the fetch, a backoff sleep or the
\* off-loaded analysis when the service shuts down is cancelled: its
\* coroutine takes no further step, its message is not acknowledged, and
\* the message goes back to the queue.
C6_ShutdownCancelsInFlight ==
    [][\A m \in Msgs :
          proc[m].atShutdown =>
              \/ (proc'[m] = proc[m] /\ status'[m] = "unacked")
              \/ (proc'[m] = IdleProc /\ status'[m] = "ready")]_vars

\* C7: with prefetch = 1 at most one inbound message is being processed at
\* any time; while a delivery is in flight or unacknowledged, no other
\* message has been delivered.
C7_SingleFlight ==
    /\ Cardinality({m \in Msgs : InFlight(m)}) <= 1
    /\ Cardinality(Unacked) <= 1
    /\ \A m \in Msgs : InFlight(m) => Unacked = {m}

\* the second message of the queue is in flight after the first reached a
\* terminal state, or waits while the first is in flight
C7_Witness ==
    \E m, n \in Msgs :
        /\ m # n
        /\ InFlight(m)
        /\ proc[m].pc = "download"
        /\ status[n] = "ready"

\* C8: a request whose downloadUrl is absent or empty produces a failure
\* event whose errorCode is MISSING_DOWNLOAD_URL, and no fetch is attempted.
C8_MissingUrlCode ==
    \A m \in Msgs :
        (bodies[m].kind = "valid" /\ ~Truthy(bodies[m].downloadUrl)) =>
            /\ proc[m].calls = 0
            /\ \A k \in EventsFor(m) :
                  /\ outbox[k].kind = "failure"
                  /\ outbox[k].errorCode = "MISSING_DOWNLOAD_URL"

\* C9: after a completed fetch, a file larger than MAX_FILE_SIZE_MB
\* megabytes fails with errorCode SIZE_LIMIT_EXCEEDED and the analysis is
\* never invoked for it; a file of at most the maximum, the maximum itself
\* included, proceeds to the analysis.
C9_SizeLimit ==
    \A m \in Msgs :
        LET p == proc[m] IN
        /\ (p.sizeChecked /\ p.stream.size > MaxBytes) =>
              /\ ~p.analyzed
              /\ p.failedStep = "size"
              /\ \A k \in EventsNow(m) :
                    /\ outbox[k].kind = "failure"
                    /\ outbox[k].errorCode = "SIZE_LIMIT_EXCEEDED"
              /\ (Ended(m) /\ ~p.publishRaised) => Cardinality(EventsNow(m)) = 1
        /\ (p.sizeChecked /\ p.stream.size <= MaxBytes) =>
              p.worker # "none"
        /\ p.analyzed =>
              (p.sizeChecked /\ p.fetched = "ok" /\ p.stream.size <= MaxBytes)

\* a file one byte over the maximum has been fetched and reported as
\* SIZE_LIMIT_EXCEEDED without analysis
C9_Witness ==
    \E m \in Msgs :
        /\ proc[m].sizeChecked
        /\ proc[m].stream.size = MaxBytes + 1
        /\ ~proc[m].analyzed
        /\ \E k \in EventsNow(m) : outbox[k].errorCode = "SIZE_LIMIT_EXCEEDED"

\* the waits of download_with_retry, in seconds
BackoffSchedule == <<2, 4>>

\* C10: download_with_retry calls the storage download at most 3 times,
\* stops at the first call that succeeds and returns that call's content,
\* waits 2 seconds after the first failure and 4 after the second, and
\* after a third failure raises that call's error without a further wait.
C10_RetryWithBackoff ==
    \A m \in Msgs :
        LET p == proc[m] IN
        /\ p.calls <= 3
        /\ p.pc \in {"download", "sleep"} =>
              /\ p.fetched = "none"
              /\ p.calls > 0 => ~p.last.ok
              /\ p.calls < 3
              /\ p.waits = SubSeq(BackoffSchedule, 1, p.calls)
        /\ p.fetched = "ok" =>
              /\ p.calls >= 1
              /\ p.last.ok
              /\ p.stream = p.last.file
              /\ p.waits = SubSeq(BackoffSchedule, 1, p.calls - 1)
        /\ p.fetched = "raised" =>
              /\ p.calls = 3
              /\ ~p.last.ok
              /\ p.waits = BackoffSchedule
              /\ p.pc = "handle" => p.exc = p.last.exc

\* two failed calls followed by a successful third one
C10_Witness ==
    \E m \in Msgs :
        /\ proc[m].fetched = "ok"
        /\ proc[m].calls = 3
        /\ proc[m].waits = <<2, 4>>
        /\ proc[m].stream \in Files

\* the error codes of the taxonomy
TaxonomyCodes ==
    {"MISSING_DOWNLOAD_URL", "SIZE_LIMIT_EXCEEDED", "MULTI_BODY_ERROR",
     "EMPTY_FILE_ERROR", "FILE_CORRUPT", "CAD_LOAD_ERROR",
     "GMSH_TESSELLATION_FAILED", "SYSTEM_ERROR"}

\* the taxonomy codes an error already carries in its text
CarriedCodes(e) == {c \in TaxonomyCodes : Contains(e.text, c)}

\* C11: when all three fetch attempts fail, one failure event is published
\* under the failure routing key; its errorCode is SYSTEM_ERROR whatever the
\* type of the fetch error, unless the error already carries a taxonomy
\* code, which is then the code used; and the analysis is never invoked.
\* Stated for the deliveries in which no publish call raised.
C11_FetchFailureIsSystemError ==
    \A m \in Msgs :
        LET p == proc[m] IN
        (Ended(m) /\ p.fetched = "raised" /\ ~p.publishRaised) =>
            /\ ~p.analyzed
            /\ Cardinality(EventsNow(m)) = 1
            /\ \A k \in EventsNow(m) :
                  /\ outbox[k].kind = "failure"
                  /\ outbox[k].routingKey = FailureKey
                  /\ IF CarriedCodes(p.last.exc) = {}
                     THEN outbox[k].errorCode = "SYSTEM_ERROR"
                     ELSE outbox[k].errorCode \in CarriedCodes(p.last.exc)

C13_RoutingByKind ==
    \A k \in 1..Len(outbox) :
        LET e == outbox[k]
            m == e.msg
        IN  /\ e.kind \in {"success", "failure"}
            /\ e.kind = "success" =>
                  /\ e.routingKey = "maliev.geometryservice.v1.analysis.completed"
                  /\ \E fault \in FaultsFor(FileExt(bodies[m].storagePath)) :
                        LET r == AnalyzeStream(content[m],
                                               FileExt(bodies[m].storagePath),
                                               fault)
                        IN  r.ok /\ e.metrics = r.metrics
                  /\ (e.delivery = deliveryNo[m] /\ InFlight(m)) =>
                        proc[m].analyzed
            /\ e.kind = "failure" =>
                  e.routingKey = "maliev.geometryservice.v1.analysis.failed"

\* one message has a failure event under the failed key and a success event
\* under the completed key
C13_Witness ==
    \E j, k \in 1..Len(outbox) :
        /\ outbox[j].kind = "failure"
        /\ outbox[j].routingKey = "maliev.geometryservice.v1.analysis.failed"
        /\ outbox[k].kind = "success"
        /\ outbox[k].routingKey = "maliev.geometryservice.v1.analysis.completed"
        /\ outbox[k].metrics.triangleCount > 0

\* the extension handed to analyze_stream for message m is a CAD format
IsCadRequest(m) == StripExt(FileExt(bodies[m].storagePath)) \in CadExts

\* the delivery of m has ended after an analysis that met no fault of the
\* disk or the engine, and no publish call raised
AnalysisReported(m) ==
    /\ Ended(m)
    /\ proc[m].analyzed
    /\ proc[m].fault = "none"
    /\ ~proc[m].publishRaised

\* exactly one event of the current delivery, a failure with this errorCode
OnlyFailure(m, code) ==
    /\ Cardinality(EventsNow(m)) = 1
    /\ \A k \in EventsNow(m) :
          /\ outbox[k].kind = "failure"
          /\ outbox[k].errorCode = code

\* C14: a request whose content holds more than one body always ends in a
\* failure event with errorCode MULTI_BODY_ERROR, whichever branch of
\* analyze_stream loads it and whatever the handlers wrap.
C14_MultiBodyAlwaysFails ==
    \A m \in Msgs :
        (AnalysisReported(m) /\ proc[m].stream.geom = "multibody") =>
            OnlyFailure(m, "MULTI_BODY_ERROR")

\* C15: a request of a mesh format whose content parses to a scene with
\* zero bodies ends in a failure event with errorCode EMPTY_FILE_ERROR.
C15_EmptySceneCode ==
    \A m \in Msgs :
        (AnalysisReported(m) /\ ~IsCadRequest(m) /\ proc[m].stream.geom = "empty") =>
            OnlyFailure(m, "EMPTY_FILE_ERROR")

\* C16: for a CAD-format request, a failure in any tessellation step
\* (writing the temporary file, initialising the engine, opening,
\* generating, extracting, zero elements) ends in a failure event with
\* errorCode CAD_LOAD_ERROR.
C16_CadFailureCode ==
    \A m \in Msgs :
        (/\ Ended(m)
         /\ IsCadRequest(m)
         /\ proc[m].failedStep = "analysis"
         /\ ~proc[m].publishRaised) =>
            OnlyFailure(m, "CAD_LOAD_ERROR")

\* C17: for a CAD-format request the temporary file of analyze_stream no
\* longer exists once analyze_stream has returned or raised, on every exit
\* path.
C17_TempFileRemoved ==
    \A m \in Msgs :
        (proc[m].analyzed /\ IsCadRequest(m)) => proc[m].tmp = "removed"

\* the words field names are made of, and their capitalised forms
Words ==
    UNION {{f[i] : i \in 1..Len(f)} :
           f \in MassTransitEnvelopeFields \cup FileAnalyzedMessageFields \cup
                 FileAnalysisFailedMessageFields \cup GeometryMetricsFields \cup
                 BoundingBoxFields}

CapitalisedWords ==
    {"Id", "Address", "Type", "Code", "At", "Cm3", "Cm2", "Volume", "Area",
     "Box", "Manifold", "Count", "Number"}

\* a lower-case word followed by capitalised words, with no separator
IsLowerCamel(name) ==
    /\ Len(name) >= 1
    /\ name[1] \in Words
    /\ \A i \in 2..Len(name) : name[i] \in CapitalisedWords

\* C18: every field name of a serialized outbound event, at every nesting
\* level (envelope, payload, metrics, bounding box), is lower-camel-case.
C18_WireNamesLowerCamel ==
    \A k \in 1..Len(outbox) :
        \A name \in outbox[k].fieldNames : IsLowerCamel(name)

\* analyze_stream has returned metrics in the current delivery of m
AnalysisReturned(m) == proc[m].analyzed /\ proc[m].failedStep # "analysis"

\* C19: for a loaded mesh that is not watertight, analyze_stream returns
\* isManifold = false with the volume and the area of the convex hull, or,
\* when no hull can be built, volume 0.0 and the sum of the triangle areas
\* of the mesh; the volume is never negative.
C19_HullFallback ==
    \A m \in Msgs :
        LET mesh == MeshOf(proc[m].stream.geom)
            mt == proc[m].metrics
        IN  (AnalysisReturned(m) /\ ~mesh.watertight) =>
                /\ mt.isManifold = FALSE
                /\ mt.volumeMm3 >= 0
                /\ IF mesh.hullOk
                   THEN mt.volumeMm3 = mesh.hullVolume /\ mt.areaMm2 = mesh.hullArea
                   ELSE mt.volumeMm3 = 0 /\ mt.areaMm2 = mesh.area

\* an open mesh whose own signed volume is negative has been measured by
\* its convex hull
C19_Witness ==
    \E m \in Msgs :
        /\ AnalysisReturned(m)
        /\ proc[m].stream.geom = "broken"
        /\ MeshOf("broken").volume < 0
        /\ proc[m].metrics.isManifold = FALSE
        /\ proc[m].metrics.volumeMm3 = 1000
        /\ proc[m].metrics.areaMm2 = 600

\* the events of a kind published during delivery d of m
KindIn(m, d, kind) == {k \in EventsIn(m, d) : outbox[k].kind = kind}

\* C20: within one delivery at most one failure event is published, and no
\* failure event is published after a success event of the same delivery,
\* also when the success publish itself raises.
C20_FailAtMostOnceExclusive ==
    \A m \in Msgs : \A d \in 1..deliveryNo[m] :
        /\ Cardinality(KindIn(m, d, "failure")) <= 1
        /\ \A j \in KindIn(m, d, "success") :
              \A k \in KindIn(m, d, "failure") : k < j

\* C23: the fileId of every outbound event, success or failure, is the
\* fileId of the inbound message when that is present and not empty, and
\* the uploadId of the inbound message otherwise.
C23_FileIdFallback ==
    \A k \in 1..Len(outbox) :
        LET b == bodies[outbox[k].msg] IN
        IF b.fileId # None /\ b.fileId # ""
        THEN outbox[k].fileId = b.fileId
        ELSE outbox[k].fileId = b.uploadId

\* an event published for a message whose fileId is the empty string
\* carries its uploadId
C23_Witness ==
    \E k \in 1..Len(outbox) :
        /\ bodies[outbox[k].msg].fileId = ""
        /\ outbox[k].fileId = "upload-3"

\* the error codes process_message can hand to publish_failure
PublishedCodes ==
    {"MULTI_BODY_ERROR", "SIZE_LIMIT_EXCEEDED", "FILE_CORRUPT", "SYSTEM_ERROR"}

\* the code C24 gives to an exception
CodeByPrecedence(e) ==
    IF e.type \notin {"ValueError", "JSONDecodeError", "ValidationError"}
    THEN "SYSTEM_ERROR"
    ELSE IF \E i \in 1..Len(e.text) : e.text[i] = "MULTI_BODY_ERROR"
    THEN "MULTI_BODY_ERROR"
    ELSE IF \E i \in 1..Len(e.text) : e.text[i] = "SIZE_LIMIT_EXCEEDED"
    THEN "SIZE_LIMIT_EXCEEDED"
    ELSE "FILE_CORRUPT"

\* C24: the errorCode of every published failure event is one of
\* MULTI_BODY_ERROR, SIZE_LIMIT_EXCEEDED, FILE_CORRUPT and SYSTEM_ERROR;
\* the event the handler publishes for a ValueError carries the first of
\* MULTI_BODY_ERROR, SIZE_LIMIT_EXCEEDED that its text contains, else
\* FILE_CORRUPT, and for any other exception SYSTEM_ERROR.
C24_FourCodesByPrecedence ==
    [][/\ \A k \in 1..Len(outbox') :
            outbox'[k].kind = "failure" =>
                outbox'[k].errorCode \in PublishedCodes
       /\ \A m \in Msgs :
            (proc[m].pc = "handle" /\ Len(outbox') = Len(outbox) + 1) =>
                /\ outbox'[Len(outbox')].kind = "failure"
                /\ outbox'[Len(outbox')].errorCode =
                      CodeByPrecedence(proc[m].exc)]_vars

\* a parser error whose text holds both code strings has been published as
\* MULTI_BODY_ERROR
C24_Witness ==
    \E k \in 1..Len(outbox) :
        /\ content[outbox[k].msg].geom = "quotesBoth"
        /\ ~IsCadRequest(outbox[k].msg)
        /\ outbox[k].kind = "failure"
        /\ outbox[k].errorCode = "MULTI_BODY_ERROR"

\* C25: the published errorCode is decided by the step that failed, not by
\* the text of the error: SIZE_LIMIT_EXCEEDED is published only when the
\* size check failed, and MULTI_BODY_ERROR only when the loader found a
\* scene with more than one body.
C25_CodeByStepNotText ==
    \A k \in 1..Len(outbox) :
        LET m == outbox[k].msg IN
        /\ outbox[k].errorCode = "SIZE_LIMIT_EXCEEDED" =>
              content[m].size > MaxBytes
        /\ outbox[k].errorCode = "MULTI_BODY_ERROR" =>
              (content[m].geom = "multibody" /\ ~IsCadRequest(m))

\* the storage paths of the modelled requests whose lower-cased suffix is one
\* of .igs, .iges, .step, .stp
CadStoragePaths == {"test/part.STEP"}

\* C22: the extension used for dispatch is the lower-cased suffix of
\* storagePath, not of fileName or contentType: an analysed request went
\* through the tessellation path if and only if that suffix is one of igs,
\* iges, step, stp, and through the mesh-loader path otherwise; exactly one
\* of the two paths ran, and neither runs unless the fetch succeeded and the
\* size check passed.
C22_DispatchByStoragePath ==
    \A m \in Msgs :
        LET p == proc[m]
            cad == bodies[m].storagePath \in CadStoragePaths
        IN  /\ p.branch \in {"none", "tessellate", "mesh"}
            /\ p.analyzed =>
                  /\ p.branch # "none"
                  /\ p.branch = "tessellate" <=> cad
                  /\ p.branch = "mesh" <=> ~cad
            /\ p.branch # "none" =>
                  /\ p.analyzed
                  /\ p.fetched = "ok"
                  /\ p.sizeChecked
                  /\ p.stream.size <= MaxBytes

\* a request stored as .STEP and uploaded under a .stl name has been analysed
\* through the tessellation path
C22_Witness ==
    \E m \in Msgs :
        /\ proc[m].analyzed
        /\ bodies[m].storagePath = "test/part.STEP"
        /\ bodies[m].fileName = "part.stl"
        /\ proc[m].branch = "tessellate"

\* C21: the byte buffer of a request is closed only after the geometry
\* computation running on the worker has finished with it; in no
\* interleaving, cancellation of the task that awaits analyze_async
\* included, is the buffer closed while the worker still runs on it, and the
\* worker never reads a closed buffer.
C21_BufferOutlivesWorker ==
    \A m \in Msgs :
        /\ proc[m].worker = "running" => proc[m].streamOpen
        /\ proc[m].worker # "readClosed"

====
